---- MODULE Spec2Model ----
(***************************************************************************)
(* Feefo ingestion pipeline (pipeline/extract.py): the SKU enrichment      *)
(* generator fetch_products_from_reviews, the page-number paginator that   *)
(* feefo_source configures, the sentiment classifier categorise_review and *)
(* the orchestrator run_dlt with its write dispositions.                   *)
(***************************************************************************)
EXTENDS Integers, Sequences, FiniteSets, TLC

VARIABLES
    tpc,          \* fetch_products_from_reviews: position of the generator
    t_args,       \* its arguments: merchant_id, period_days
    seen_skus,    \* its local set seen_skus
    products,     \* mentions of the current review still to be visited
    walked,       \* history: the sku read from every mention of the reviews pulled so far
    pulled,       \* history: number of reviews pulled from reviews_resource
    yielded,      \* records the generator has yielded, in order
    ratingCalls,  \* requests.get calls to products/ratings of this pass, in order
    t_exc,        \* exception that left the generator ("" while none)
    logged,       \* logger.error and logger.warning calls of this pass, in order
    ratingsApi,   \* the remote products/ratings endpoint: its answer per SKU
    server,       \* the remote reviews/all endpoint: declared page total and the pages
    rpc,          \* run_dlt: position of the current call ("idle" between calls)
    cfg,          \* arguments of the current (or last) call of run_dlt
    runs,         \* number of calls of run_dlt that have returned or raised
    fs,           \* what exists on disk: the database directory, the dlt pipeline
    source,       \* resources of the source and the write disposition each carries
    pag,          \* the PageNumberPaginator state of each iteration of feefo_reviews
    reviewCalls,  \* requests to reviews/all during the current call, in order
    staged,       \* reviews the feefo_reviews resource has extracted in this call
    buffer,       \* reviews fetched for the transformer and not yet handed to it
    sink,         \* the destination tables: rows per primary key
    history,      \* per finished call: arguments, outcome, row counts after it
    classified,   \* the last direct call of categorise_review: arguments and result
    cli           \* cli.main: position, argv, parsed arguments, the run_dlt call, exit status

tvars == <<tpc, t_args, seen_skus, products, walked, pulled, yielded, ratingCalls, t_exc, logged>>
rvars == <<rpc, cfg, runs, fs, source, pag, reviewCalls, staged, buffer, sink, history>>
\* what the generator itself never writes
\* what only a direct call of categorise_review or of cli.main writes
cvars == <<classified, cli>>
outside == <<ratingsApi, server, cvars, rvars>>
vars == <<tvars, ratingsApi, server, cvars, rvars>>

----------------------------------------------------------------------------
(* Bounds of the exploration *)

\* reviews one standalone pass pulls from its input iterator
MaxStream == 2
\* product mentions embedded in one review
MaxMentions == 2

----------------------------------------------------------------------------
(* Values *)

\* Python None, JSON null
None == "<None>"
\* a key that is missing from a dict
Absent == "<absent>"

SkuNames == {"A", "B"}
\* what the "sku" key of a mention can hold
SkuField == SkuNames \cup {"", None, Absent}

\* a ProductMention: {"product": {"sku": ...}}, the "product" key possibly missing
Mentions ==
    {[product |-> TRUE, sku |-> s] : s \in SkuField}
        \cup {[product |-> FALSE, sku |-> Absent]}

SeqsUpTo(S, n) == UNION {[1..k -> S] : k \in 0..n}

\* a Review as the transformer reads it: the "products" key possibly missing
ReviewBodies ==
    {[hasProducts |-> TRUE, products |-> ms] : ms \in SeqsUpTo(Mentions, MaxMentions)}
        \cup {[hasProducts |-> FALSE, products |-> <<>>]}

Merchants == {"test-merchant"}

\* period_days: <<>> is None, <<n>> is the integer n
Periods == {<<>>, <<0>>, <<30>>, <<0 - 7>>}

----------------------------------------------------------------------------
(* categorise_review: the sentiment classifier *)

\* ratings are explored in steps of 1/Scale; a rating r is held as r * Scale
Scale == 2

\* a str is the sequence of its characters
UpperCase == <<"A", "B", "C", "D", "E", "F", "G", "H", "I", "J", "K", "L", "M", "N", "O", "P", "Q", "R", "S", "T", "U", "V", "W", "X", "Y", "Z">>
LowerCase == <<"a", "b", "c", "d", "e", "f", "g", "h", "i", "j", "k", "l", "m", "n", "o", "p", "q", "r", "s", "t", "u", "v", "w", "x", "y", "z">>

\* str.lower() on one character
LowerChar(c) ==
    IF \E i \in 1..Len(UpperCase) : UpperCase[i] = c
    THEN LowerCase[CHOOSE i \in 1..Len(UpperCase) : UpperCase[i] = c]
    ELSE c

\* Lower leaving the case as it is (sensitivity of C12)
Lower_Unchanged(s) == s

\* str.lower()
Lower(s) == [i \in 1..Len(s) |-> LowerChar(s[i])]

Whitespace == {" ", "\t", "\n"}

\* str.split() without arguments: the maximal runs of non-whitespace characters
RECURSIVE SplitFrom(_, _, _)
SplitFrom(s, i, word) ==
    IF i > Len(s)
    THEN IF word = <<>> THEN <<>> ELSE <<word>>
    ELSE IF s[i] \in Whitespace
         THEN IF word = <<>>
              THEN SplitFrom(s, i + 1, <<>>)
              ELSE <<word>> \o SplitFrom(s, i + 1, <<>>)
         ELSE SplitFrom(s, i + 1, Append(word, s[i]))

Split(s) == SplitFrom(s, 1, <<>>)

positive_keywords ==
    {<<"e", "x", "c", "e", "l", "l", "e", "n", "t">>,
     <<"a", "m", "a", "z", "i", "n", "g">>,
     <<"l", "o", "v", "e">>,
     <<"p", "e", "r", "f", "e", "c", "t">>,
     <<"b", "e", "a", "u", "t", "i", "f", "u", "l">>,
     <<"g", "r", "e", "a", "t">>,
     <<"f", "a", "n", "t", "a", "s", "t", "i", "c">>}

negative_keywords ==
    {<<"d", "i", "s", "a", "p", "p", "o", "i", "n", "t", "e", "d">>,
     <<"p", "o", "o", "r">>,
     <<"t", "e", "r", "r", "i", "b", "l", "e">>,
     <<"a", "w", "f", "u", "l">>,
     <<"b", "r", "o", "k", "e", "n">>,
     <<"b", "a", "d">>,
     <<"w", "o", "r", "s", "t">>}

\* the for loop over review_words: the first word that is a keyword decides
RECURSIVE ScanWords(_, _)
ScanWords(words, i) ==
    IF i > Len(words) THEN "neutral"
    ELSE IF words[i] \in positive_keywords THEN "positive"
    ELSE IF words[i] \in negative_keywords THEN "negative"
    ELSE ScanWords(words, i + 1)

\* rating: <<>> for None, <<r>> for a number (scaled); review: [isStr, chars],
\* isStr = FALSE being None, on which .lower() raises AttributeError
categorise_review(rating, review) ==
    IF rating # <<>>
    THEN IF rating[1] >= 4 * Scale THEN "positive"
         ELSE IF rating[1] = 3 * Scale THEN "neutral"
         ELSE "negative"
    ELSE IF ~review.isStr THEN "AttributeError"
    ELSE ScanWords(Split(Lower(review.chars)), 1)

Categories == {"positive", "neutral", "negative"}

----------------------------------------------------------------------------
(* The products/ratings endpoint and its records *)

\* records of one rating response
MaxRecords == 2

\* the "review_text" key of a record: missing, null, or a str
TextAbsent == [key |-> FALSE, isStr |-> FALSE, chars |-> <<>>]
TextNull == [key |-> TRUE, isStr |-> FALSE, chars |-> <<>>]
Text(s) == [key |-> TRUE, isStr |-> TRUE, chars |-> s]

\* the elements a rating response can hold for the SKU asked
RatingRecords(sku) ==
    {[sku |-> sku, average_rating |-> <<>>, review_text |-> TextAbsent],
     [sku |-> sku, average_rating |-> <<4 * Scale>>, review_text |-> TextAbsent],
     [sku |-> sku, average_rating |-> <<>>, review_text |-> TextNull]}

\* what requests.get, raise_for_status and json() can produce for one request:
\* one of the three exceptions, or the decoded body (null, a dict without
\* "products", a dict with a "products" list)
Responses(sku) ==
    {[kind |-> k, products |-> <<>>] :
        k \in {"RequestException", "HTTPError", "JSONDecodeError", "null", "no_key", "dict"}}
        \cup {[kind |-> "dict", products |-> ps] :
                ps \in SeqsUpTo(RatingRecords(sku), MaxRecords) \ {<<>>}}

\* the responses explored when the whole pipeline runs
RunResponses(sku) ==
    {[kind |-> "HTTPError", products |-> <<>>],
     [kind |-> "no_key", products |-> <<>>],
     [kind |-> "dict", products |->
        <<[sku |-> sku, average_rating |-> <<>>, review_text |-> TextAbsent]>>],
     [kind |-> "dict", products |->
        <<[sku |-> sku, average_rating |-> <<>>, review_text |-> TextNull]>>]}

\* ratingsApi[sku] is the response the endpoint gives for sku: open (Unfixed)
\* until sku is first asked for, the same from then on
Unfixed == [kind |-> "any", products |-> <<>>]

\* the values a product_sku parameter can take
Askable == SkuNames \cup {"", None}

Answers(sku, resp) ==
    /\ resp \in Responses(sku)
    /\ ratingsApi[sku] \in {Unfixed, resp}
    /\ rpc # "idle" => resp \in RunResponses(sku)

----------------------------------------------------------------------------
(* fetch_products_from_reviews *)

\* product.get("product", {}).get("sku")
DictGetSku(m) == IF m.product /\ m.sku # Absent THEN m.sku ELSE None

\* Truthy with the test on the value left out (sensitivity of C10)
Truthy_Always(v) == TRUE

\* truth value of a str or None
Truthy(v) == v # None /\ v # ""

\* review.get("products", [])
GetProducts(review) == IF review.hasProducts THEN review.products ELSE <<>>

\* FormatPeriod without the unit suffix (sensitivity of C9)
FormatPeriod_NoUnit(n) == ToString(n)

\* f"{period_days}days"
FormatPeriod(n) == ToString(n) \o "days"

\* the "if period_days:" test
PeriodGiven(period_days) == period_days # <<>> /\ period_days[1] # 0

\* the params dict of one products/ratings request
RatingParams(merchant_id, sku, period_days) ==
    LET base == [k \in {"merchant_identifier", "product_sku"} |->
                    IF k = "merchant_identifier" THEN merchant_id ELSE sku]
    IN  IF PeriodGiven(period_days)
        THEN [k \in DOMAIN base \cup {"since_period"} |->
                IF k = "since_period" THEN FormatPeriod(period_days[1]) ELSE base[k]]
        ELSE base

\* product.get("review_text", "")
GetReviewText(p) ==
    IF p.review_text.key
    THEN [isStr |-> p.review_text.isStr, chars |-> p.review_text.chars]
    ELSE [isStr |-> TRUE, chars |-> <<>>]

\* product["category"] = categorise_review(...)
Tag(p) ==
    [sku |-> p.sku, average_rating |-> p.average_rating, review_text |-> p.review_text,
     category |-> categorise_review(p.average_rating, GetReviewText(p))]

\* the loop over data["products"]: records are yielded one by one until
\* categorise_review raises
RECURSIVE YieldAll(_, _)
YieldAll(ps, i) ==
    IF i > Len(ps) THEN <<>>
    ELSE IF Tag(ps[i]).category \notin Categories THEN <<>>
    ELSE <<Tag(ps[i])>> \o YieldAll(ps, i + 1)

\* the exception the loop over data["products"] ends with, "" if none
RECURSIVE RaisedIn(_, _)
RaisedIn(ps, i) ==
    IF i > Len(ps) THEN ""
    ELSE IF Tag(ps[i]).category \notin Categories THEN Tag(ps[i]).category
    ELSE RaisedIn(ps, i + 1)

\* ShouldFetch without the membership test (sensitivity of C1)
ShouldFetch_NoDedup(sku, seen) == Truthy(sku)

\* "if sku and sku not in seen_skus"
ShouldFetch(sku, seen) == Truthy(sku) /\ sku \notin seen

\* the first call of the generator: seen_skus = set()
TBegin(merchant_id, period_days) ==
    /\ tpc' = "loop"
    /\ t_args' = [merchant_id |-> merchant_id, period_days |-> period_days]
    /\ seen_skus' = {}
    /\ products' = <<>>
    /\ walked' = <<>>
    /\ pulled' = 0
    /\ yielded' = <<>>
    /\ ratingCalls' = <<>>
    /\ t_exc' = ""
    /\ logged' = <<>>

\* TTake handing the same review over twice (sensitivity of C22)
TTake_Twice(review) ==
    /\ tpc' = "products"
    /\ products' = GetProducts(review) \o GetProducts(review)
    /\ walked' = walked \o [i \in 1..(2 * Len(GetProducts(review))) |->
                    DictGetSku((GetProducts(review) \o GetProducts(review))[i])]
    /\ pulled' = pulled + 2
    /\ UNCHANGED <<t_args, seen_skus, yielded, ratingCalls, t_exc, logged>>

\* "for review in reviews_resource" hands over one review
TTake(review) ==
    /\ tpc' = "products"
    /\ products' = GetProducts(review)
    /\ walked' = walked \o [i \in 1..Len(GetProducts(review)) |-> DictGetSku(GetProducts(review)[i])]
    /\ pulled' = pulled + 1
    /\ UNCHANGED <<t_args, seen_skus, yielded, ratingCalls, t_exc, logged>>

\* "for review in reviews_resource" finds the input exhausted
TEnd ==
    /\ tpc' = "done"
    /\ UNCHANGED <<t_args, seen_skus, products, walked, pulled, yielded, ratingCalls, t_exc, logged>>

\* a mention whose sku is falsy or already seen: no request
TSkip ==
    /\ tpc = "products"
    /\ products # <<>>
    /\ ~ShouldFetch(DictGetSku(Head(products)), seen_skus)
    /\ products' = Tail(products)
    /\ UNCHANGED <<tpc, t_args, seen_skus, walked, pulled, yielded, ratingCalls, t_exc, logged, outside>>

\* Caught without the "except ValueError" clause (sensitivity of C3)
Caught_NoValueError(exc) == exc \in {"HTTPError", "RequestException"}

\* the exceptions of the try block that an except clause catches: HTTPError,
\* RequestException, ValueError (the JSON decode error)
Caught(exc) == exc \in {"HTTPError", "RequestException", "JSONDecodeError"}

\* what requests.get, raise_for_status or json() raised for this response
Raises(resp) == resp.kind \in {"RequestException", "HTTPError", "JSONDecodeError"}

\* SeenAfter with the SKU recorded only once its fetch succeeded (sensitivity of C2)
SeenAfter_OnSuccess(sku, resp) == IF Raises(resp) THEN seen_skus ELSE seen_skus \cup {sku}

\* seen_skus.add(sku), before the request is made
SeenAfter(sku, resp) == seen_skus \cup {sku}

\* the mention the inner loop is at names a SKU to fetch
AtNewSku ==
    /\ tpc = "products"
    /\ products # <<>>
    /\ ShouldFetch(DictGetSku(Head(products)), seen_skus)

\* what every request for a new SKU does before the response is looked at
TRequest(sku, resp) ==
    /\ Answers(sku, resp)
    /\ ratingsApi' = [ratingsApi EXCEPT ![sku] = resp]
    /\ seen_skus' = SeenAfter(sku, resp)
    /\ ratingCalls' = Append(ratingCalls, RatingParams(t_args.merchant_id, sku, t_args.period_days))
    /\ UNCHANGED <<t_args, walked, pulled, server, cvars, rvars>>

\* the three except clauses: the error is logged and the loop goes on
TFetchFailed ==
    /\ AtNewSku
    /\ \E resp \in Responses(DictGetSku(Head(products))) :
        LET sku == DictGetSku(Head(products)) IN
        /\ Raises(resp)
        /\ Caught(resp.kind)
        /\ TRequest(sku, resp)
        /\ logged' = Append(logged, [level |-> "error", sku |-> sku, exc |-> resp.kind])
        /\ products' = Tail(products)
        /\ UNCHANGED <<tpc, yielded, t_exc>>

\* the else branch: no "products" key, or an empty list
TFetchNoData ==
    /\ AtNewSku
    /\ \E resp \in Responses(DictGetSku(Head(products))) :
        LET sku == DictGetSku(Head(products)) IN
        /\ resp.kind \in {"no_key", "dict"}
        /\ resp.products = <<>>
        /\ TRequest(sku, resp)
        /\ logged' = Append(logged, [level |-> "warning", sku |-> sku, exc |-> ""])
        /\ products' = Tail(products)
        /\ UNCHANGED <<tpc, yielded, t_exc>>

\* every record is tagged and yielded
TFetchYield ==
    /\ AtNewSku
    /\ \E resp \in Responses(DictGetSku(Head(products))) :
        LET sku == DictGetSku(Head(products)) IN
        /\ resp.kind = "dict"
        /\ resp.products # <<>>
        /\ RaisedIn(resp.products, 1) = ""
        /\ TRequest(sku, resp)
        /\ yielded' = yielded \o YieldAll(resp.products, 1)
        /\ products' = Tail(products)
        /\ UNCHANGED <<tpc, t_exc, logged>>

\* an exception no except clause names leaves the generator: TypeError from
\* '"products" in None', AttributeError from None.lower()
TFetchRaise ==
    /\ AtNewSku
    /\ \E resp \in Responses(DictGetSku(Head(products))) :
        LET sku == DictGetSku(Head(products)) IN
        /\ \/ Raises(resp) /\ ~Caught(resp.kind)
           \/ resp.kind = "null"
           \/ resp.kind = "dict" /\ RaisedIn(resp.products, 1) # ""
        /\ TRequest(sku, resp)
        /\ yielded' = yielded \o YieldAll(resp.products, 1)
        /\ t_exc' = IF Raises(resp) THEN resp.kind
                    ELSE IF resp.kind = "null" THEN "TypeError"
                    ELSE RaisedIn(resp.products, 1)
        /\ tpc' = "raised"
        /\ products' = Tail(products)
        /\ UNCHANGED logged

\* the mentions of the current review are exhausted
TNextReview ==
    /\ tpc = "products"
    /\ products = <<>>
    /\ tpc' = "loop"
    /\ UNCHANGED <<t_args, seen_skus, products, walked, pulled, yielded, ratingCalls, t_exc, logged, outside>>

----------------------------------------------------------------------------
(* The reviews/all endpoint and the paginator feefo_source configures *)

\* pages the server holds, and the largest page total it declares
MaxTotal == 2
\* largest max_pages a call is given
MaxCap == 3
\* calls of run_dlt in one behaviour
MaxRuns == 2

\* PageNumberPaginator(base_page=1, ...)
base_page == 1

Url(p) == "https://feefo.com/review/" \o ToString(p)

\* the reviews page p can hold
PageReviews(p) ==
    {[url |-> Url(p), hasProducts |-> TRUE, products |-> <<[product |-> TRUE, sku |-> sku]>>] :
        sku \in SkuNames \cup {""}}

\* a page: the request fails (ok = FALSE), or it answers with its reviews
PageKinds(p) ==
    {[ok |-> FALSE, reviews |-> <<>>], [ok |-> TRUE, reviews |-> <<>>]}
        \cup {[ok |-> TRUE, reviews |-> <<r>>] : r \in PageReviews(p)}

Servers ==
    {[total |-> t, pages |-> ps] :
        t \in 0..MaxTotal,
        ps \in {f \in [1..MaxTotal -> UNION {PageKinds(p) : p \in 1..MaxTotal}] :
                    \A p \in 1..MaxTotal : f[p] \in PageKinds(p)}}

\* ServerPage with a failing request read as a page without reviews
\* (sensitivity of C14)
ServerPage_Lenient(p) ==
    IF p \in DOMAIN server.pages /\ server.pages[p].ok
    THEN server.pages[p] ELSE [ok |-> TRUE, reviews |-> <<>>]

\* the response to a request for page p; past its last page the server
\* answers with no reviews
ServerPage(p) ==
    IF p \in DOMAIN server.pages THEN server.pages[p] ELSE [ok |-> TRUE, reviews |-> <<>>]

\* a paginator before init_request
NewPaginator == [state |-> "new", current_value |-> base_page]

\* RangePaginator.update_state of dlt, as PageNumberPaginator(base_page=1,
\* total_path="summary.meta.pages", maximum_page=max_pages) runs it: an empty
\* page stops; otherwise the page number is advanced and pagination stops once
\* it reaches total + base_page or maximum_page
UpdateState(pg, data, total, maximum_page) ==
    IF data = <<>>
    THEN [state |-> "closed", current_value |-> pg.current_value]
    ELSE LET next == pg.current_value + 1
         IN  [state |-> IF next >= total + base_page \/ next >= maximum_page
                        THEN "closed" ELSE "open",
              current_value |-> next]

\* ReviewParams with the since and until filters left out (sensitivity of C18)
ReviewParams_NoFilters(merchant_id, since, until, page) ==
    [k \in {"merchant_identifier", "page"} |->
        IF k = "merchant_identifier" THEN merchant_id ELSE ToString(page)]

\* params of a reviews/all request: merchant_identifier, since and until when
\* truthy, and the page parameter the paginator adds
ReviewParams(merchant_id, since, until, page) ==
    LET keys == {"merchant_identifier", "page"}
                    \cup (IF Truthy(since) THEN {"since"} ELSE {})
                    \cup (IF Truthy(until) THEN {"until"} ELSE {})
    IN  [k \in keys |->
            CASE k = "merchant_identifier" -> merchant_id
              [] k = "page" -> ToString(page)
              [] k = "since" -> since
              [] k = "until" -> until]

\* one request of the iteration it (the resource itself, or the transformer's
\* "for review in reviews_resource")
ReviewRequest(it) ==
    [it |-> it, page |-> pag[it].current_value,
     params |-> ReviewParams(cfg.merchant_id, cfg.since, cfg.until, pag[it].current_value)]

----------------------------------------------------------------------------
(* The sink: dlt's load of one table under a write disposition *)

Urls == {Url(p) : p \in 1..MaxTotal}

Occurrences(rows, k) == Cardinality({i \in DOMAIN rows : rows[i] = k})

\* append inserts every row; replace truncates first; merge upserts by primary key
LoadTable(table, rows, write_disposition) ==
    [k \in DOMAIN table |->
        CASE write_disposition = "append" -> table[k] + Occurrences(rows, k)
          [] write_disposition = "replace" -> Occurrences(rows, k)
          [] write_disposition = "merge" ->
                IF Occurrences(rows, k) > 0 THEN 1 ELSE table[k]]

RECURSIVE SumOver(_, _)
SumOver(table, keys) ==
    IF keys = {} THEN 0
    ELSE LET k == CHOOSE x \in keys : TRUE
         IN  table[k] + SumOver(table, keys \ {k})

\* SELECT COUNT(*) of a table
RowCount(table) == SumOver(table, DOMAIN table)

----------------------------------------------------------------------------
(* run_dlt *)

write_disposition_map == [m \in {"merge", "replace", "append"} |-> m]

ModeArgs == DOMAIN write_disposition_map \cup {"upsert"}

\* ValidMode with the validation left out (sensitivity of C7)
ValidMode_Any(mode) == TRUE

\* "if mode not in write_disposition_map" does not raise
ValidMode(mode) == mode \in DOMAIN write_disposition_map

\* HintedSource with no hint applied (sensitivity of C6)
HintedSource_Skipped(src, write_disposition) == src

\* HintedSource with the hint applied to feefo_reviews only (sensitivity of C8)
HintedSource_ReviewsOnly(src, write_disposition) ==
    [r \in DOMAIN src |-> IF r = "feefo_reviews" THEN write_disposition ELSE src[r]]

\* the loop over source.resources.values(): apply_hints on each
HintedSource(src, write_disposition) == [r \in DOMAIN src |-> write_disposition]

RunArgs ==
    [merchant_id : Merchants, mode : ModeArgs, max_pages : 1..MaxCap,
     include_ratings : BOOLEAN, period_days : {<<>>}, since : {None}, until : {None}]

\* DeclaredResources returning both resources whatever the flag (sensitivity of C13)
DeclaredResources_Both(include_ratings) ==
    [r \in {"feefo_reviews", "feefo_products_for_reviews"} |->
        IF r = "feefo_reviews" THEN "append" ELSE "merge"]

\* the write dispositions the resources are declared with: dlt's default for
\* the rest_api resource, the decorator's for the transformer
DeclaredResources(include_ratings) ==
    IF include_ratings
    THEN [r \in {"feefo_reviews", "feefo_products_for_reviews"} |->
            IF r = "feefo_reviews" THEN "append" ELSE "merge"]
    ELSE [r \in {"feefo_reviews"} |-> "append"]

TIdle ==
    /\ tpc' = "idle"
    /\ t_args' = [merchant_id |-> "", period_days |-> <<>>]
    /\ seen_skus' = {}
    /\ products' = <<>>
    /\ walked' = <<>>
    /\ pulled' = 0
    /\ yielded' = <<>>
    /\ ratingCalls' = <<>>
    /\ t_exc' = ""
    /\ logged' = <<>>

\* what a call leaves behind: its arguments, how it ended, SELECT COUNT(*) of
\* both tables
Finished(args, outcome) ==
    [cfg |-> args, outcome |-> outcome,
     reviews |-> RowCount(sink.feefo_reviews),
     products |-> RowCount(sink.feefo_products_for_reviews)]

\* A behaviour repeats the call with the arguments of its first call, the mode
\* left free, as the write-mode tests do.

\* lines 243-246: a mode that is no key of write_disposition_map
RejectMode ==
    /\ rpc = "idle"
    /\ runs < MaxRuns
    /\ \E args \in RunArgs :
        /\ runs = 0 \/ args = [cfg EXCEPT !.mode = args.mode]
        /\ ~ValidMode(args.mode)
        /\ cfg' = args
        /\ history' = Append(history, Finished(args, "ValueError"))
    /\ runs' = runs + 1
    /\ UNCHANGED <<rpc, fs, source, pag, reviewCalls, staged, buffer, sink, tvars, ratingsApi, server, cvars>>

\* lines 248-277: the directory, the pipeline and the source are created
BeginRun ==
    /\ rpc = "idle"
    /\ runs < MaxRuns
    /\ \E args \in RunArgs :
        /\ runs = 0 \/ args = [cfg EXCEPT !.mode = args.mode]
        /\ ValidMode(args.mode)
        /\ cfg' = args
        /\ source' = DeclaredResources(args.include_ratings)
    /\ fs' = [db_dir |-> TRUE, pipeline |-> TRUE]
    /\ pag' = [it \in {"resource", "transformer"} |-> NewPaginator]
    /\ reviewCalls' = <<>>
    /\ staged' = <<>>
    /\ buffer' = <<>>
    /\ rpc' = "source"
    /\ TIdle
    /\ UNCHANGED <<runs, sink, history, ratingsApi, server, cvars>>

\* what a step of lines 250-277 (os.makedirs, dlt.pipeline, feefo_source) can
\* raise: a ValueError (or a subclass of it), or any other Exception
SetupExceptions == {"ValueError", "OSError"}

\* the position of run_dlt once a step inside the try block has raised exc
AfterSetupRaised(exc) == IF exc = "ValueError" THEN "setup_failed_value" ELSE "setup_failed"

\* lines 250-277: a step raises before the source exists; the database
\* directory may or may not have been created by then
SetupRaised ==
    /\ rpc = "idle"
    /\ runs < MaxRuns
    /\ \E args \in RunArgs, exc \in SetupExceptions, made \in BOOLEAN :
        /\ runs = 0 \/ args = [cfg EXCEPT !.mode = args.mode]
        /\ ValidMode(args.mode)
        /\ cfg' = args
        /\ fs' = [fs EXCEPT !.db_dir = @ \/ made]
        /\ rpc' = AfterSetupRaised(exc)
    /\ source' = <<>>
    /\ pag' = [it \in {"resource", "transformer"} |-> NewPaginator]
    /\ reviewCalls' = <<>>
    /\ staged' = <<>>
    /\ buffer' = <<>>
    /\ TIdle
    /\ UNCHANGED <<runs, sink, history, ratingsApi, server, cvars>>

\* lines 279-282: apply_hints on every resource of the source
ApplyHints ==
    /\ rpc = "source"
    /\ source' = HintedSource(source, write_disposition_map[cfg.mode])
    /\ rpc' = "extract"
    /\ UNCHANGED <<cfg, runs, fs, pag, reviewCalls, staged, buffer, sink, history, tvars, ratingsApi, server, cvars>>

\* pipeline.run(source) extracts feefo_reviews: one page
ResourceFetch ==
    /\ rpc = "extract"
    /\ tpc # "raised"
    /\ pag.resource.state # "closed"
    /\ ServerPage(pag.resource.current_value).ok
    /\ reviewCalls' = Append(reviewCalls, ReviewRequest("resource"))
    /\ LET data == ServerPage(pag.resource.current_value).reviews
       IN  /\ staged' = staged \o [i \in 1..Len(data) |-> data[i].url]
           /\ pag' = [pag EXCEPT !.resource = UpdateState(@, data, server.total, cfg.max_pages)]
    /\ UNCHANGED <<rpc, cfg, runs, fs, source, buffer, sink, history, tvars, ratingsApi, server, cvars>>

\* the page request fails: the extraction ends and the generator is closed
ResourceFetchFailed ==
    /\ rpc = "extract"
    /\ tpc # "raised"
    /\ pag.resource.state # "closed"
    /\ ~ServerPage(pag.resource.current_value).ok
    /\ reviewCalls' = Append(reviewCalls, ReviewRequest("resource"))
    /\ rpc' = "failed"
    /\ tpc' = IF tpc \in {"created", "loop", "products"} THEN "closed" ELSE tpc
    /\ UNCHANGED <<cfg, runs, fs, source, pag, staged, buffer, sink, history, ratingsApi, server, cvars>>
    /\ UNCHANGED <<t_args, seen_skus, products, walked, pulled, yielded, ratingCalls, t_exc, logged>>

\* pipeline.run(source) starts the generator of feefo_products_for_reviews
TStart ==
    /\ rpc = "extract"
    /\ "feefo_products_for_reviews" \in DOMAIN source
    /\ tpc = "idle"
    /\ TBegin(cfg.merchant_id, cfg.period_days)
    /\ UNCHANGED outside

\* "for review in reviews_resource" iterates the resource anew: a page request
\* of its own
TPullFetch ==
    /\ rpc = "extract"
    /\ tpc = "loop"
    /\ buffer = <<>>
    /\ pag.transformer.state # "closed"
    /\ ServerPage(pag.transformer.current_value).ok
    /\ reviewCalls' = Append(reviewCalls, ReviewRequest("transformer"))
    /\ LET data == ServerPage(pag.transformer.current_value).reviews
       IN  /\ buffer' = data
           /\ pag' = [pag EXCEPT !.transformer = UpdateState(@, data, server.total, cfg.max_pages)]
    /\ UNCHANGED <<rpc, cfg, runs, fs, source, staged, sink, history, tvars, ratingsApi, server, cvars>>

\* that page request fails inside the generator
TPullFetchFailed ==
    /\ rpc = "extract"
    /\ tpc = "loop"
    /\ buffer = <<>>
    /\ pag.transformer.state # "closed"
    /\ ~ServerPage(pag.transformer.current_value).ok
    /\ reviewCalls' = Append(reviewCalls, ReviewRequest("transformer"))
    /\ tpc' = "raised"
    /\ t_exc' = "HTTPError"
    /\ UNCHANGED <<rpc, cfg, runs, fs, source, pag, staged, buffer, sink, history, ratingsApi, server, cvars>>
    /\ UNCHANGED <<t_args, seen_skus, products, walked, pulled, yielded, ratingCalls, logged>>

TPullTake ==
    /\ rpc = "extract"
    /\ tpc = "loop"
    /\ buffer # <<>>
    /\ TTake(Head(buffer))
    /\ buffer' = Tail(buffer)
    /\ UNCHANGED <<rpc, cfg, runs, fs, source, pag, reviewCalls, staged, sink, history, ratingsApi, server, cvars>>

TPullEnd ==
    /\ rpc = "extract"
    /\ tpc = "loop"
    /\ buffer = <<>>
    /\ pag.transformer.state = "closed"
    /\ TEnd
    /\ UNCHANGED outside

\* an exception of the generator ends the extraction
ExtractRaised ==
    /\ rpc = "extract"
    /\ tpc = "raised"
    /\ rpc' = "failed"
    /\ UNCHANGED <<cfg, runs, fs, source, pag, reviewCalls, staged, buffer, sink, history, tvars, ratingsApi, server, cvars>>

\* every resource is exhausted: the load starts
ExtractDone ==
    /\ rpc = "extract"
    /\ pag.resource.state = "closed"
    /\ "feefo_products_for_reviews" \in DOMAIN source => tpc = "done"
    /\ rpc' = "load"
    /\ UNCHANGED <<cfg, runs, fs, source, pag, reviewCalls, staged, buffer, sink, history, tvars, ratingsApi, server, cvars>>

\* the load: each resource's rows under the disposition the resource carries
Load ==
    /\ rpc = "load"
    /\ sink' =
        [feefo_reviews |->
            LoadTable(sink.feefo_reviews, staged, source["feefo_reviews"]),
         feefo_products_for_reviews |->
            IF "feefo_products_for_reviews" \in DOMAIN source
            THEN LoadTable(sink.feefo_products_for_reviews,
                           [i \in 1..Len(yielded) |-> yielded[i].sku],
                           source["feefo_products_for_reviews"])
            ELSE sink.feefo_products_for_reviews]
    /\ rpc' = "loaded"
    /\ UNCHANGED <<cfg, runs, fs, source, pag, reviewCalls, staged, buffer, history, tvars, ratingsApi, server, cvars>>

\* pipeline.run(source) fails in its load step: dlt raises PipelineStepFailed
LoadFailed ==
    /\ rpc = "load"
    /\ rpc' = "load_failed"
    /\ UNCHANGED <<cfg, runs, fs, source, pag, reviewCalls, staged, buffer, sink, history, tvars, ratingsApi, server, cvars>>

\* lines 291-292: run_dlt returns
Return ==
    /\ rpc = "loaded"
    /\ rpc' = "idle"
    /\ runs' = runs + 1
    /\ history' = Append(history, Finished(cfg, "ok"))
    /\ UNCHANGED <<cfg, fs, source, pag, reviewCalls, staged, buffer, sink, tvars, ratingsApi, server, cvars>>

\* lines 297-300: any other exception is raised as RuntimeError
RaiseRuntimeError ==
    /\ rpc \in {"failed", "setup_failed", "load_failed"}
    /\ rpc' = "idle"
    /\ runs' = runs + 1
    /\ history' = Append(history, Finished(cfg, "RuntimeError"))
    /\ UNCHANGED <<cfg, fs, source, pag, reviewCalls, staged, buffer, sink, tvars, ratingsApi, server, cvars>>

\* lines 294-296: a ValueError raised inside the try block is raised again as it is
ReRaiseValueError ==
    /\ rpc = "setup_failed_value"
    /\ rpc' = "idle"
    /\ runs' = runs + 1
    /\ history' = Append(history, Finished(cfg, "ValueError"))
    /\ UNCHANGED <<cfg, fs, source, pag, reviewCalls, staged, buffer, sink, tvars, ratingsApi, server, cvars>>

\* the state of run_dlt's world before the first call
RunIdle ==
    /\ rpc = "idle"
    /\ cfg = [merchant_id |-> "", mode |-> "", max_pages |-> 1,
              include_ratings |-> FALSE, period_days |-> <<>>,
              since |-> None, until |-> None]
    /\ runs = 0
    /\ fs = [db_dir |-> FALSE, pipeline |-> FALSE]
    /\ source = <<>>
    /\ pag = [it \in {"resource", "transformer"} |-> NewPaginator]
    /\ reviewCalls = <<>>
    /\ staged = <<>>
    /\ buffer = <<>>
    /\ sink = [feefo_reviews |-> [k \in Urls |-> 0],
               feefo_products_for_reviews |-> [k \in Askable |-> 0]]
    /\ history = <<>>

TIdleNow ==
    /\ tpc = "idle"
    /\ t_args = [merchant_id |-> "", period_days |-> <<>>]
    /\ seen_skus = {}
    /\ products = <<>>
    /\ walked = <<>>
    /\ pulled = 0
    /\ yielded = <<>>
    /\ ratingCalls = <<>>
    /\ t_exc = ""
    /\ logged = <<>>

\* categorise_review not yet called directly
NotClassified ==
    classified = [called |-> FALSE, rating |-> <<>>, words |-> <<>>,
                  review |-> [isStr |-> TRUE, chars |-> <<>>], result |-> ""]

\* cli.main not yet started
CliIdle ==
    cli = [pc |-> "idle", argv |-> [command |-> "", options |-> <<>>],
           args |-> <<>>, calls |-> <<>>,
           outcome |-> "", success |-> FALSE, exit |-> <<>>]

Init ==
    /\ TIdleNow
    /\ RunIdle
    /\ NotClassified
    /\ CliIdle
    /\ server \in Servers
    /\ ratingsApi = [s \in Askable |-> Unfixed]

Next ==
    \/ RejectMode
    \/ SetupRaised
    \/ BeginRun
    \/ ApplyHints
    \/ ResourceFetch
    \/ ResourceFetchFailed
    \/ TStart
    \/ TPullFetch
    \/ TPullFetchFailed
    \/ TPullTake
    \/ TPullEnd
    \/ TSkip
    \/ TFetchFailed
    \/ TFetchNoData
    \/ TFetchYield
    \/ TFetchRaise
    \/ TNextReview
    \/ ExtractRaised
    \/ ExtractDone
    \/ Load
    \/ LoadFailed
    \/ Return
    \/ RaiseRuntimeError
    \/ ReRaiseValueError

Spec == Init /\ [][Next]_vars

----------------------------------------------------------------------------
(* One call of run_dlt with the since and until filters *)

\* since / until as a caller can pass them: None, the empty string, a date, or
\* text that is no date
SinceArgs == {None, "", "2024-01-01", "yesterday"}

UntilArgs == {None, "", "2024-12-31"}

FilterArgs ==
    [merchant_id : Merchants \cup {"notonthehighstreet-com"}, mode : {"merge"},
     max_pages : 1..MaxCap, include_ratings : BOOLEAN, period_days : {<<>>},
     since : SinceArgs, until : UntilArgs]

\* lines 248-277 for the first call, the filters among its arguments
BeginFiltered ==
    /\ rpc = "idle"
    /\ runs = 0
    /\ \E args \in FilterArgs :
        /\ ValidMode(args.mode)
        /\ cfg' = args
        /\ source' = DeclaredResources(args.include_ratings)
    /\ fs' = [db_dir |-> TRUE, pipeline |-> TRUE]
    /\ pag' = [it \in {"resource", "transformer"} |-> NewPaginator]
    /\ reviewCalls' = <<>>
    /\ staged' = <<>>
    /\ buffer' = <<>>
    /\ rpc' = "source"
    /\ TIdle
    /\ UNCHANGED <<runs, sink, history, ratingsApi, server, cvars>>

NextFiltered ==
    \/ BeginFiltered
    \/ ApplyHints
    \/ ResourceFetch
    \/ ResourceFetchFailed
    \/ TStart
    \/ TPullFetch
    \/ TPullFetchFailed
    \/ TPullTake
    \/ TPullEnd
    \/ TSkip
    \/ TFetchFailed
    \/ TFetchNoData
    \/ TFetchYield
    \/ TFetchRaise
    \/ TNextReview
    \/ ExtractRaised
    \/ ExtractDone
    \/ Load
    \/ LoadFailed
    \/ Return
    \/ RaiseRuntimeError

SpecFiltered == Init /\ [][NextFiltered]_vars

----------------------------------------------------------------------------
(* The generator driven on its own over an iterator of reviews, as        *)
(* list(fetch_products_from_reviews(merchant_id, iter(reviews), period))  *)

StartPass ==
    /\ rpc = "idle"
    /\ runs = 0
    /\ tpc = "idle"
    /\ \E m \in Merchants, p \in Periods : TBegin(m, p)
    /\ UNCHANGED outside

PullReview ==
    /\ rpc = "idle"
    /\ tpc = "loop"
    /\ pulled < MaxStream
    /\ \E r \in ReviewBodies : TTake(r)
    /\ UNCHANGED outside

InputExhausted ==
    /\ rpc = "idle"
    /\ tpc = "loop"
    /\ TEnd
    /\ UNCHANGED outside

InitPass ==
    /\ TIdleNow
    /\ RunIdle
    /\ NotClassified
    /\ CliIdle
    /\ server = [total |-> 0, pages |-> [p \in 1..MaxTotal |-> [ok |-> TRUE, reviews |-> <<>>]]]
    /\ ratingsApi = [s \in Askable |-> Unfixed]

NextPass ==
    \/ StartPass
    \/ PullReview
    \/ InputExhausted
    \/ TSkip
    \/ TFetchFailed
    \/ TFetchNoData
    \/ TFetchYield
    \/ TFetchRaise
    \/ TNextReview

SpecPass == InitPass /\ [][NextPass]_vars

----------------------------------------------------------------------------
(* The generator driven over the iterator of a given list of reviews; the *)
(* reviews the iterator has not handed over yet are held in buffer        *)

\* the mentions of the reviews of a given list
ListMentions == {[product |-> TRUE, sku |-> s] : s \in SkuNames \cup {None}}

ListReviews ==
    {[hasProducts |-> TRUE, products |-> ms] : ms \in SeqsUpTo(ListMentions, MaxMentions)}

InputLists == SeqsUpTo(ListReviews, MaxStream)

\* iter(reviews) hands over its next review
PullFromList ==
    /\ rpc = "idle"
    /\ tpc = "loop"
    /\ buffer # <<>>
    /\ TTake(Head(buffer))
    /\ buffer' = Tail(buffer)
    /\ UNCHANGED <<rpc, cfg, runs, fs, source, pag, reviewCalls, staged, sink, history, ratingsApi, server, cvars>>

\* iter(reviews) raises StopIteration
ListExhausted ==
    /\ rpc = "idle"
    /\ tpc = "loop"
    /\ buffer = <<>>
    /\ TEnd
    /\ UNCHANGED outside

InitList ==
    /\ TIdleNow
    /\ NotClassified
    /\ CliIdle
    /\ server = [total |-> 0, pages |-> [p \in 1..MaxTotal |-> [ok |-> TRUE, reviews |-> <<>>]]]
    /\ ratingsApi = [s \in Askable |-> Unfixed]
    /\ rpc = "idle"
    /\ cfg = [merchant_id |-> "", mode |-> "", max_pages |-> 1,
              include_ratings |-> FALSE, period_days |-> <<>>,
              since |-> None, until |-> None]
    /\ runs = 0
    /\ fs = [db_dir |-> FALSE, pipeline |-> FALSE]
    /\ source = <<>>
    /\ pag = [it \in {"resource", "transformer"} |-> NewPaginator]
    /\ reviewCalls = <<>>
    /\ staged = <<>>
    /\ buffer \in InputLists
    /\ sink = [feefo_reviews |-> [k \in Urls |-> 0],
               feefo_products_for_reviews |-> [k \in Askable |-> 0]]
    /\ history = <<>>

NextList ==
    \/ StartPass
    \/ PullFromList
    \/ ListExhausted
    \/ TSkip
    \/ TFetchFailed
    \/ TFetchNoData
    \/ TFetchYield
    \/ TFetchRaise
    \/ TNextReview

SpecList == InitList /\ [][NextList]_vars

----------------------------------------------------------------------------
(* categorise_review called directly, as the unit tests of a classifier do *)

\* words a review text is made of
MaxWords == 2

W_GREAT == <<"G", "R", "E", "A", "T">>
W_love == <<"l", "o", "v", "e">>
W_Bad == <<"B", "a", "d">>
W_poor == <<"p", "o", "o", "r">>
W_ok == <<"o", "k">>
W_great_bang == <<"g", "r", "e", "a", "t", "!">>

Vocabulary == {W_GREAT, W_love, W_Bad, W_poor, W_ok, W_great_bang}

\* whitespace put between two words, and around the text when it is padded
Separators == {<<" ">>, <<"\t", " ">>}

\* the str made of the words ws separated by sep
RECURSIVE Join(_, _)
Join(ws, sep) ==
    IF ws = <<>> THEN <<>>
    ELSE IF Len(ws) = 1 THEN ws[1]
    ELSE ws[1] \o sep \o Join(Tail(ws), sep)

\* rating arguments: None, or a number from 0 to 5 in steps of 1/Scale
Ratings == {<<>>} \cup {<<r>> : r \in 0..(5 * Scale)}

\* review arguments: None, or a str
Reviews ==
    {[words |-> <<>>, review |-> [isStr |-> FALSE, chars |-> <<>>]]}
        \cup {[words |-> ws,
                review |-> [isStr |-> TRUE,
                            chars |-> IF pad THEN sep \o Join(ws, sep) \o sep ELSE Join(ws, sep)]] :
                    ws \in SeqsUpTo(Vocabulary, MaxWords), sep \in Separators, pad \in BOOLEAN}

\* one call categorise_review(rating, review); an exception is the result
Classify ==
    /\ rpc = "idle"
    /\ tpc = "idle"
    /\ cli.pc = "idle"
    /\ ~classified.called
    /\ \E rating \in Ratings, r \in Reviews :
        classified' = [called |-> TRUE, rating |-> rating, words |-> r.words,
                       review |-> r.review,
                       result |-> categorise_review(rating, r.review)]
    /\ UNCHANGED <<tvars, ratingsApi, server, cli, rvars>>

SpecClassify == InitPass /\ [][Classify]_vars

----------------------------------------------------------------------------
(* cli.main: the argparse parser of the run command and the call of run_dlt *)

\* options on one command line
MaxFlags == 2

DEFAULT_MERCHANT_ID == "notonthehighstreet-com"
DEFAULT_MAX_PAGES == 1
DEFAULT_INCLUDE_RATINGS == TRUE
\* DEFAULT_PERIOD_DAYS = None
DEFAULT_PERIOD_DAYS == <<>>

\* the values the options are given with; an int option is given as its digits
Options ==
    {[flag |-> "--merchant-id", value |-> "acme"],
     [flag |-> "--max-pages", value |-> <<"1", "2">>],
     [flag |-> "--max-pages", value |-> <<"x">>],
     [flag |-> "--mode", value |-> "replace"],
     [flag |-> "--mode", value |-> "upsert"],
     [flag |-> "--include-ratings", value |-> None],
     [flag |-> "--no-include-ratings", value |-> None],
     [flag |-> "--period-days", value |-> <<"3", "0">>],
     [flag |-> "--period-days", value |-> <<"0">>],
     [flag |-> "--since", value |-> "2024-01-01"],
     [flag |-> "--until", value |-> "2024-12-31"]}

\* sys.argv[1:]: the command, if any, and its options
CommandLines ==
    [command : {"run", ""}, options : SeqsUpTo(Options, MaxFlags)]

DigitChars == <<"0", "1", "2", "3", "4", "5", "6", "7", "8", "9">>

IsDigit(c) == \E i \in DOMAIN DigitChars : DigitChars[i] = c

DigitValue(c) == (CHOOSE i \in DOMAIN DigitChars : DigitChars[i] = c) - 1

\* type=int accepts the text
IsInt(ds) == ds # <<>> /\ \A i \in DOMAIN ds : IsDigit(ds[i])

\* ParseInt reading the first digit only (sensitivity of C17)
ParseInt_FirstDigit(ds) == DigitValue(ds[1])

\* int(text) for a text of decimal digits
RECURSIVE ParseInt(_)
ParseInt(ds) ==
    IF Len(ds) = 1 THEN DigitValue(ds[1])
    ELSE 10 * ParseInt(SubSeq(ds, 1, Len(ds) - 1)) + DigitValue(ds[Len(ds)])

\* choices=["merge", "replace", "append"]
ModeChoices == {"merge", "replace", "append"}

\* argparse rejects the option: parser.error, exit status 2
Rejected(opt) ==
    \/ opt.flag = "--mode" /\ opt.value \notin ModeChoices
    \/ opt.flag \in {"--max-pages", "--period-days"} /\ ~IsInt(opt.value)

\* the namespace before any option is read: the default of every argument
Defaults ==
    [merchant_id |-> DEFAULT_MERCHANT_ID, mode |-> "merge",
     max_pages |-> DEFAULT_MAX_PAGES, include_ratings |-> DEFAULT_INCLUDE_RATINGS,
     period_days |-> DEFAULT_PERIOD_DAYS, since |-> None, until |-> None]

\* the namespace after one accepted option
Store(ns, opt) ==
    CASE opt.flag = "--merchant-id" -> [ns EXCEPT !.merchant_id = opt.value]
      [] opt.flag = "--max-pages" -> [ns EXCEPT !.max_pages = ParseInt(opt.value)]
      [] opt.flag = "--mode" -> [ns EXCEPT !.mode = opt.value]
      [] opt.flag = "--include-ratings" -> [ns EXCEPT !.include_ratings = TRUE]
      [] opt.flag = "--no-include-ratings" -> [ns EXCEPT !.include_ratings = FALSE]
      [] opt.flag = "--period-days" -> [ns EXCEPT !.period_days = <<ParseInt(opt.value)>>]
      [] opt.flag = "--since" -> [ns EXCEPT !.since = opt.value]
      [] opt.flag = "--until" -> [ns EXCEPT !.until = opt.value]

\* parser.parse_args() on accepted options, read left to right
RECURSIVE ParseArgs(_, _)
ParseArgs(ns, opts) ==
    IF opts = <<>> THEN ns ELSE ParseArgs(Store(ns, Head(opts)), Tail(opts))

\* ExitStatus that is 0 whatever run_dlt did (sensitivity of C16)
ExitStatus_Zero(outcome) == 0

\* the exit status of the process: sys.exit(1) in the except clause, 0 when
\* main returns
ExitStatus(outcome) == IF outcome = "ok" THEN 0 ELSE 1

\* how a call of run_dlt can end
Outcomes == {"ok", "ValueError", "RuntimeError"}

\* line 99: parse_args, which leaves the process on an error
CliParse ==
    /\ rpc = "idle"
    /\ tpc = "idle"
    /\ ~classified.called
    /\ cli.pc = "idle"
    /\ \E line \in CommandLines :
        IF line.command = "run" /\ \E i \in DOMAIN line.options : Rejected(line.options[i])
        THEN cli' = [cli EXCEPT !.pc = "exited", !.argv = line, !.exit = <<2>>]
        ELSE cli' = [cli EXCEPT !.pc = "parsed", !.argv = line,
                        !.args = IF line.command = "run"
                                 THEN <<ParseArgs(Defaults, line.options)>> ELSE <<>>]
    /\ UNCHANGED <<tvars, ratingsApi, server, classified, rvars>>

\* lines 104-115: the run command calls run_dlt with the parsed arguments
CliCallRun ==
    /\ cli.pc = "parsed"
    /\ cli.argv.command = "run"
    /\ \E outcome \in Outcomes :
        cli' = [cli EXCEPT !.pc = "called", !.calls = Append(@, cli.args[1]),
                            !.outcome = outcome]
    /\ UNCHANGED <<tvars, ratingsApi, server, classified, rvars>>

\* lines 116-119: completion is logged, or the error is logged and
\* sys.exit(1) is called
CliFinish ==
    /\ cli.pc = "called"
    /\ cli' = [cli EXCEPT !.pc = "exited", !.success = (cli.outcome = "ok"),
                            !.exit = <<ExitStatus(cli.outcome)>>]
    /\ UNCHANGED <<tvars, ratingsApi, server, classified, rvars>>

\* lines 120-121: no command, the help is printed
CliHelp ==
    /\ cli.pc = "parsed"
    /\ cli.argv.command # "run"
    /\ cli' = [cli EXCEPT !.pc = "exited", !.exit = <<ExitStatus("ok")>>]
    /\ UNCHANGED <<tvars, ratingsApi, server, classified, rvars>>

NextCli ==
    \/ CliParse
    \/ CliCallRun
    \/ CliFinish
    \/ CliHelp

SpecCli == InitPass /\ [][NextCli]_vars

----------------------------------------------------------------------------
(* Observations the properties are stated over *)

\* the sku values read from the mentions walked so far
Mentioned == {walked[i] : i \in DOMAIN walked}

\* the product_sku of every products/ratings request, in order
Requested == [i \in DOMAIN ratingCalls |-> ratingCalls[i]["product_sku"]]

RequestedSkus == {Requested[i] : i \in DOMAIN Requested}

FetchErrors == {"HTTPError", "RequestException", "JSONDecodeError"}

\* the step is a products/ratings request for s that fails
FailedFetchOf(s) ==
    /\ Len(ratingCalls') = Len(ratingCalls) + 1
    /\ ratingCalls'[Len(ratingCalls')]["product_sku"] = s
    /\ ratingsApi'[s].kind \in FetchErrors

\* the skus of the records yielded so far
YieldedSkus == {yielded[i].sku : i \in DOMAIN yielded}

Min(a, b) == IF a <= b THEN a ELSE b

\* the pages the feefo_reviews resource itself has requested, in order
ResourcePages ==
    LET own == SelectSeq(reviewCalls, LAMBDA c : c.it = "resource")
    IN  [i \in DOMAIN own |-> own[i].page]

----------------------------------------------------------------------------
(* Properties of the standalone pass (SpecPass) *)

\* C1 as stated: a pass that has consumed its whole input has issued exactly
\* one request per distinct non-null SKU mentioned, the empty string counted
\* as a SKU like any other.
C1_OnePerNonNullSku ==
    tpc = "done" =>
        /\ Len(ratingCalls) = Cardinality(Mentioned \ {None})
        /\ RequestedSkus = Mentioned \ {None}

\* C1 amended: a pass never issues more requests than there are distinct
\* non-null, non-empty SKUs among the mentions walked, and once it has consumed
\* its whole input it has issued exactly one request for each of them.
C1_OnePerNonEmptySku ==
    /\ Len(ratingCalls) <= Cardinality(Mentioned \ {None, ""})
    /\ tpc = "done" =>
        /\ Len(ratingCalls) = Cardinality(Mentioned \ {None, ""})
        /\ RequestedSkus = Mentioned \ {None, ""}

\* a finished pass over four mentions: the empty string, and two SKUs of which
\* one is mentioned twice
C1_Witness ==
    /\ tpc = "done"
    /\ Len(walked) = 4
    /\ Mentioned = {"", "A", "B"}
    /\ Len(ratingCalls) = 2

\* C2: no SKU is asked for twice in a pass, whatever its fetch came to
\* (records, no records, or a caught failure).
C2_AtMostOncePerSku ==
    \A i, j \in DOMAIN Requested : i # j => Requested[i] # Requested[j]

\* a finished pass in which a SKU whose fetch failed is mentioned a second time
C2_Witness ==
    /\ tpc = "done"
    /\ \E s \in SkuNames :
        /\ ratingsApi[s].kind \in FetchErrors
        /\ Cardinality({i \in DOMAIN walked : walked[i] = s}) >= 2

\* C3: a rating fetch that fails with an HTTP error, a network error or an
\* undecodable body is logged, raises nothing out of the generator, yields no
\* record for its SKU and leaves the loop at the next mention; a pass that
\* consumes its whole input has then asked for every distinct SKU mentioned and
\* has yielded the records of every SKU whose fetch succeeded.
C3_FailureIsolatedPerSku ==
    /\ [][\A s \in SkuNames :
            FailedFetchOf(s) =>
                /\ t_exc' = ""
                /\ tpc' = "products"
                /\ products' = Tail(products)
                /\ yielded' = yielded
                /\ logged' = Append(logged, [level |-> "error", sku |-> s,
                                             exc |-> ratingsApi'[s].kind])]_vars
    /\ [](/\ t_exc \notin FetchErrors
          /\ \A s \in SkuNames : ratingsApi[s].kind \in FetchErrors => s \notin YieldedSkus
          /\ tpc = "done" =>
                \A s \in Mentioned \cap SkuNames :
                    /\ s \in RequestedSkus
                    /\ ratingsApi[s].kind = "dict" /\ ratingsApi[s].products # <<>>
                        => s \in YieldedSkus)

\* a finished pass whose first fetch failed and whose second fetch yielded records
C3_Witness ==
    /\ tpc = "done"
    /\ Len(Requested) = 2
    /\ ratingsApi[Requested[1]].kind \in FetchErrors
    /\ Requested[2] \in YieldedSkus
    /\ Len(logged) = 1

\* the since_period text of the periods explored, written out
PeriodText(n) ==
    CASE n = 0 -> "0days"
      [] n = 30 -> "30days"
      [] n = 0 - 7 -> "-7days"

\* C9 as stated: with period_days an integer n every request carries
\* since_period = "<n>days"; with period_days None no request carries it.
C9_EveryIntegerPeriod ==
    \A i \in DOMAIN ratingCalls :
        IF t_args.period_days = <<>>
        THEN "since_period" \notin DOMAIN ratingCalls[i]
        ELSE /\ "since_period" \in DOMAIN ratingCalls[i]
             /\ ratingCalls[i]["since_period"] = PeriodText(t_args.period_days[1])

\* C9 amended: with period_days a non-zero integer n every request carries
\* since_period = "<n>days"; with period_days None or 0 no request carries it.
C9_NonZeroPeriod ==
    \A i \in DOMAIN ratingCalls :
        IF t_args.period_days \in {<<>>, <<0>>}
        THEN "since_period" \notin DOMAIN ratingCalls[i]
        ELSE /\ "since_period" \in DOMAIN ratingCalls[i]
             /\ ratingCalls[i]["since_period"] = PeriodText(t_args.period_days[1])

\* a pass with period_days = 30 whose two requests both carry "30days"
C9_Witness ==
    /\ t_args.period_days = <<30>>
    /\ Len(ratingCalls) = 2
    /\ \A i \in DOMAIN ratingCalls : ratingCalls[i]["since_period"] = "30days"

\* the mention the inner loop is at has a null sku, no "sku" key, or no
\* "product" key
AtNullMention ==
    /\ tpc = "products"
    /\ products # <<>>
    /\ ~Head(products).product \/ Head(products).sku \in {None, Absent}

\* C10: a mention whose sku is null or absent is passed over without a request
\* and without an exception, the loop going on with the next mention; a review
\* whose products field is empty or absent is taken and left without a request
\* and without an exception, the loop going on with the next review; no request
\* ever carries a null product_sku.
C10_NullSkuNoRequest ==
    /\ [][AtNullMention =>
            /\ ratingCalls' = ratingCalls
            /\ yielded' = yielded
            /\ t_exc' = ""
            /\ tpc' = "products"
            /\ products' = Tail(products)]_vars
    /\ [][(tpc = "loop" /\ tpc' = "products" /\ products' = <<>>) =>
            (ratingCalls' = ratingCalls /\ t_exc' = "")]_vars
    /\ [][(tpc = "products" /\ products = <<>>) =>
            (ratingCalls' = ratingCalls /\ t_exc' = "" /\ tpc' = "loop")]_vars
    /\ [](None \notin RequestedSkus)

\* a finished pass that walked a review without products, then a review whose
\* first mention has a null sku and whose second names a SKU that was fetched
C10_Witness ==
    /\ tpc = "done"
    /\ pulled = 2
    /\ walked = <<None, "A">>
    /\ Requested = <<"A">>
    /\ t_exc = ""

\* the category the claim expects for a record, by its rating and text
ExpectedCategory(rating, text) ==
    CASE rating = <<4 * Scale>> -> "positive"
      [] rating = <<>> /\ text = TextAbsent -> "neutral"
      [] OTHER -> "none"

\* the records yielded for the SKU, in order, without their category
YieldedFor(s) ==
    LET recs == SelectSeq(yielded, LAMBDA r : r.sku = s)
    IN  [i \in 1..Len(recs) |->
            [sku |-> recs[i].sku, average_rating |-> recs[i].average_rating,
             review_text |-> recs[i].review_text]]

\* C20 as stated: every yielded record carries a category among positive,
\* neutral, negative, the one its rating and review text call for; and once a
\* rating request has been answered with a dict holding records, each of those
\* records has been yielded, in order, one or several.
C20_AllRecordsTaggedAndYielded ==
    /\ \A i \in DOMAIN yielded :
        /\ yielded[i].category \in {"positive", "neutral", "negative"}
        /\ yielded[i].category =
                ExpectedCategory(yielded[i].average_rating, yielded[i].review_text)
    /\ \A s \in Askable :
        ratingsApi[s].kind = "dict" => YieldedFor(s) = ratingsApi[s].products

\* the distinct SKUs among the mentions walked, None and the empty string left
\* out, in the order of their first mention
FirstMentions ==
    LET first == {i \in DOMAIN walked :
                    /\ walked[i] \notin {None, ""}
                    /\ \A j \in 1..(i - 1) : walked[j] # walked[i]}
        RECURSIVE InOrder(_)
        InOrder(n) ==
            IF n = 0 THEN <<>>
            ELSE IF n \in first THEN Append(InOrder(n - 1), walked[n])
            ELSE InOrder(n - 1)
    IN  InOrder(Len(walked))

\* the records of the answered requests 1..n, request after request, each
\* response's records in the order of the response
RECURSIVE FetchedRecords(_)
FetchedRecords(n) ==
    IF n = 0 THEN <<>>
    ELSE FetchedRecords(n - 1) \o
            (IF ratingsApi[Requested[n]].kind = "dict"
             THEN ratingsApi[Requested[n]].products ELSE <<>>)

\* the records yielded so far, in order, without their category
YieldedRecords ==
    [i \in DOMAIN yielded |->
        [sku |-> yielded[i].sku, average_rating |-> yielded[i].average_rating,
         review_text |-> yielded[i].review_text]]

\* the requests made so far are the first of FirstMentions, in its order
RequestsInMentionOrder ==
    /\ Len(Requested) <= Len(FirstMentions)
    /\ Requested = SubSeq(FirstMentions, 1, Len(Requested))
    /\ tpc = "done" => Requested = FirstMentions

\* C21 as stated: the rating requests are made in the order in which the
\* distinct SKUs are first mentioned (review after review, mention after
\* mention), and the records yielded are, in that order, the records of every
\* request that was answered with records, each response's order kept.
C21_OutputInFirstMentionOrder ==
    /\ RequestsInMentionOrder
    /\ YieldedRecords = FetchedRecords(Len(Requested))

\* C23 as stated: tagging a record of an answered rating request returns one
\* of the three categories whatever the record's rating (absent or a number)
\* and review text (a string, absent or null), and the pass is never ended by
\* an exception of the classifier.
C23_ClassificationNeverAborts ==
    /\ \A s \in Askable :
        ratingsApi[s].kind = "dict" =>
            \A i \in DOMAIN ratingsApi[s].products :
                LET p == ratingsApi[s].products[i]
                IN  categorise_review(p.average_rating, GetReviewText(p))
                        \in {"positive", "neutral", "negative"}
    /\ ~(tpc = "raised" /\ t_exc = "AttributeError")

----------------------------------------------------------------------------
(* Properties of run_dlt (Spec) *)

\* C4 as stated: against a server that declares T >= 1 pages and serves each of
\* them with reviews, the feefo_reviews resource called with max_pages = N has,
\* when its pagination ends, requested exactly the pages 1..min(T, N), in order
\* and once each.
C4_PagesOneToMin ==
    (/\ pag.resource.state = "closed"
     /\ server.total >= 1
     /\ \A p \in 1..server.total : server.pages[p].ok /\ server.pages[p].reviews # <<>>)
        => ResourcePages = [i \in 1..Min(server.total, cfg.max_pages) |-> i]

\* C5 as stated: when a call with a valid mode has ended its extraction, loaded
\* or failed, it has made at least one and at most max_pages requests to
\* reviews/all, include_ratings true or false, the first of them for page 1.
C5_AtMostMaxPagesRequests ==
    rpc \in {"load", "loaded", "failed"} =>
        /\ Len(reviewCalls) >= 1
        /\ Len(reviewCalls) <= cfg.max_pages
        /\ reviewCalls[1].page = 1

\* C6: of the first two calls on an empty destination, made with the same
\* mode and both returning, the second leaves the row count of every table
\* equal to the count after the first under merge and replace, and twice that
\* count under append.
C6_SecondRunRowCount ==
    (Len(history) >= 2 /\ history[1].cfg = history[2].cfg
        /\ history[1].outcome = "ok" /\ history[2].outcome = "ok"
        /\ history[1].cfg.mode \in {"merge", "replace", "append"}) =>
        IF history[1].cfg.mode = "append"
        THEN /\ history[2].reviews = 2 * history[1].reviews
             /\ history[2].products = 2 * history[1].products
        ELSE /\ history[2].reviews = history[1].reviews
             /\ history[2].products = history[1].products

\* two append calls that each loaded a review and a product record
C6_Witness ==
    /\ Len(history) >= 2
    /\ history[1].cfg.mode = "append"
    /\ history[2].cfg.mode = "append"
    /\ history[1].reviews >= 1
    /\ history[1].products >= 1
    /\ history[2].reviews = 2 * history[1].reviews
    /\ history[2].products = 2 * history[1].products

\* C7: a call whose mode is none of merge, replace, append ends at once with
\* ValueError: no request to either endpoint, no directory or pipeline created,
\* the destination tables as they were.
C7_InvalidModeRejected ==
    [][(/\ rpc = "idle"
        /\ cfg'.mode \notin {"merge", "replace", "append"}
        /\ rpc' # "idle" \/ history' # history \/ runs' # runs) =>
            /\ rpc' = "idle"
            /\ history' = Append(history,
                    [cfg |-> cfg', outcome |-> "ValueError",
                     reviews |-> RowCount(sink.feefo_reviews),
                     products |-> RowCount(sink.feefo_products_for_reviews)])
            /\ fs' = fs
            /\ sink' = sink
            /\ reviewCalls' = reviewCalls
            /\ ratingCalls' = ratingCalls]_vars

\* a call with an invalid mode after a call that loaded reviews: ValueError,
\* the row count as the first call left it
C7_Witness ==
    /\ Len(history) = 2
    /\ history[1].outcome = "ok"
    /\ history[1].reviews >= 1
    /\ history[2].cfg.mode = "upsert"
    /\ history[2].outcome = "ValueError"
    /\ history[2].reviews = history[1].reviews

\* C8: when the load starts, every resource of the source carries the write
\* disposition named by the mode of the call, whatever it was declared with.
C8_UniformDisposition ==
    rpc = "load" =>
        /\ DOMAIN source = IF cfg.include_ratings
                           THEN {"feefo_reviews", "feefo_products_for_reviews"}
                           ELSE {"feefo_reviews"}
        /\ \A r \in DOMAIN source : source[r] = cfg.mode

\* the load of a replace call with both resources starts
C8_Witness ==
    /\ rpc = "load"
    /\ cfg.mode = "replace"
    /\ cfg.include_ratings
    /\ DOMAIN source = {"feefo_reviews", "feefo_products_for_reviews"}

----------------------------------------------------------------------------
(* Properties of categorise_review called directly (SpecClassify) *)

\* C11 as stated: with a rating present the result is positive exactly when
\* rating >= 4, neutral exactly when rating = 3 and negative exactly when
\* rating < 3, whatever the text, for every rating explored (halves included).
C11_RatingThresholds ==
    (classified.called /\ classified.rating # <<>>) =>
        LET r == classified.rating[1] IN
        /\ classified.result = "positive" <=> r >= 4 * Scale
        /\ classified.result = "neutral" <=> r = 3 * Scale
        /\ classified.result = "negative" <=> r < 3 * Scale

\* the polarity of each word of the vocabulary, written out
Polarity(w) ==
    CASE w = W_GREAT -> "positive"
      [] w = W_love -> "positive"
      [] w = W_Bad -> "negative"
      [] w = W_poor -> "negative"
      [] OTHER -> "none"

\* the polarity of the first word that has one, neutral if no word has
RECURSIVE FirstPolarity(_)
FirstPolarity(ws) ==
    IF ws = <<>> THEN "neutral"
    ELSE IF Polarity(Head(ws)) # "none" THEN Polarity(Head(ws))
    ELSE FirstPolarity(Tail(ws))

\* C12: with no rating and a str as text, the result is the polarity of the
\* first whitespace-separated word, case ignored, that is a positive or a
\* negative keyword, and neutral when no word is one or the text is empty.
C12_FirstKeywordWins ==
    (classified.called /\ classified.rating = <<>> /\ classified.review.isStr) =>
        classified.result = FirstPolarity(classified.words)

\* "Bad GREAT", padded and tab-separated, classified negative
C12_Witness ==
    /\ classified.called
    /\ classified.rating = <<>>
    /\ classified.words = <<W_Bad, W_GREAT>>
    /\ classified.review.chars = <<"\t", " ">> \o W_Bad \o <<"\t", " ">> \o W_GREAT \o <<"\t", " ">>
    /\ classified.result = "negative"

----------------------------------------------------------------------------
(* Further properties of run_dlt (Spec) *)

\* the reviews of the pages this call has requested and received
FetchedReviews ==
    UNION {{server.pages[p].reviews[j] : j \in DOMAIN server.pages[p].reviews} :
            p \in {reviewCalls[i].page : i \in DOMAIN reviewCalls}
                    \cap {q \in DOMAIN server.pages : server.pages[q].ok}}

\* the skus those reviews mention
FetchedSkus ==
    UNION {{r.products[k].sku : k \in DOMAIN r.products} : r \in FetchedReviews}

\* what the flag promises either way, the skus that count being S
RatingsFollowFlag(S) ==
    /\ (rpc # "idle" /\ ~cfg.include_ratings) =>
            /\ ratingCalls = <<>>
            /\ tpc = "idle"
            /\ DOMAIN source \subseteq {"feefo_reviews"}
    /\ (rpc = "load" /\ cfg.include_ratings /\ FetchedSkus \cap S # {}) =>
            /\ Len(ratingCalls) >= 1
            /\ "feefo_products_for_reviews" \in DOMAIN source

\* C13 as stated: with include_ratings false a call makes no products/ratings
\* request and its source holds the reviews resource only; with include_ratings
\* true, a call whose extraction completes and whose reviews mention a non-null
\* SKU (the empty string being one) has made at least one products/ratings
\* request and its source holds the product-ratings resource.
C13_AnyNonNullSku == RatingsFollowFlag(SkuNames \cup {""})

\* C13 amended: the same, the SKU mentioned being non-null and non-empty.
C13_NonEmptySku == RatingsFollowFlag(SkuNames)

\* a call with include_ratings whose load starts after reviews mentioning the
\* empty string and a SKU were fetched and one request was made
C13_Witness ==
    /\ rpc = "load"
    /\ cfg.include_ratings
    /\ FetchedSkus = {"", "A"}
    /\ Len(ratingCalls) = 1
    /\ "feefo_products_for_reviews" \in DOMAIN source

\* the request i of this call is for a page whose request fails
FailsAt(i) ==
    /\ reviewCalls[i].page \in DOMAIN server.pages
    /\ ~server.pages[reviewCalls[i].page].ok

\* a review page request of this call has failed
PageFailed == \E i \in DOMAIN reviewCalls : FailsAt(i)

\* C14: once a review page request of a call has failed, that request stays
\* the last one of the call, the load is never reached and the destination
\* tables stay as the call found them; the call ends raising RuntimeError to
\* its caller, whatever pages had been fetched before.
C14_PageFailureAbortsRun ==
    /\ []((PageFailed /\ rpc # "idle") =>
            /\ rpc \in {"extract", "failed"}
            /\ \A i \in DOMAIN reviewCalls : FailsAt(i) <=> i = Len(reviewCalls)
            /\ RowCount(sink.feefo_reviews) =
                    IF history = <<>> THEN 0 ELSE history[Len(history)].reviews
            /\ RowCount(sink.feefo_products_for_reviews) =
                    IF history = <<>> THEN 0 ELSE history[Len(history)].products)
    /\ [][(PageFailed /\ rpc # "idle" /\ rpc' = "idle") =>
            /\ history' = Append(history,
                    [cfg |-> cfg, outcome |-> "RuntimeError",
                     reviews |-> RowCount(sink.feefo_reviews),
                     products |-> RowCount(sink.feefo_products_for_reviews)])
            /\ sink' = sink
            /\ reviewCalls' = reviewCalls]_vars

\* a first call that fetched a review from page 1, failed on page 2 and raised
\* RuntimeError, the destination left empty
C14_Witness ==
    /\ rpc = "idle"
    /\ Len(history) = 1
    /\ history[1].outcome = "RuntimeError"
    /\ history[1].reviews = 0
    /\ Len(staged) = 1
    /\ Len(reviewCalls) = 2
    /\ FailsAt(2)

\* C15 as stated: a call ends with ValueError exactly when its mode is none
\* of merge, replace, append; a call with a valid mode returns or ends with
\* RuntimeError, whatever the failing step raised.
C15_ValueErrorIffInvalidMode ==
    \A i \in DOMAIN history :
        /\ history[i].outcome = "ValueError"
                <=> history[i].cfg.mode \notin {"merge", "replace", "append"}
        /\ history[i].cfg.mode \in {"merge", "replace", "append"}
                => history[i].outcome \in {"ok", "RuntimeError"}

\* C19 as stated: in a call with include_ratings true the sink and the
\* transformer are fed from one pass over the review pages: all page requests
\* of the call come from the same iteration and no page is requested twice.
C19_SinglePassOverPages ==
    cfg.include_ratings =>
        \A i, j \in DOMAIN reviewCalls :
            /\ reviewCalls[i].it = reviewCalls[j].it
            /\ reviewCalls[i].page = reviewCalls[j].page => i = j

----------------------------------------------------------------------------
(* Properties of cli.main (SpecCli) *)

\* C16: when the run command has called run_dlt and the process is over, the
\* exit status is 1 and no completion was reported if run_dlt raised
\* (ValueError or RuntimeError alike), and completion was reported and the
\* status is 0 if run_dlt returned.
C16_ExitFollowsOutcome ==
    (cli.pc = "exited" /\ cli.calls # <<>>) =>
        IF cli.outcome = "ok"
        THEN cli.success /\ cli.exit = <<0>>
        ELSE ~cli.success /\ cli.exit = <<1>>

\* a run command whose call of run_dlt raised RuntimeError and whose process
\* left with status 1
C16_Witness ==
    /\ cli.pc = "exited"
    /\ Len(cli.calls) = 1
    /\ cli.outcome = "RuntimeError"
    /\ cli.exit = <<1>>

\* the places of the command line where one of the flags is given
GivenAt(flags) ==
    {i \in DOMAIN cli.argv.options : cli.argv.options[i].flag \in flags}

\* the value the command line gives for the flag last, or the default
LastGiven(flag, default) ==
    IF GivenAt({flag}) = {} THEN default
    ELSE cli.argv.options[CHOOSE i \in GivenAt({flag}) :
                            \A j \in GivenAt({flag}) : j <= i].value

\* the integers the texts of the command lines stand for
IntegerOf(text) ==
    CASE text = <<"1", "2">> -> 12
      [] text = <<"3", "0">> -> 30
      [] text = <<"0">> -> 0

\* every value of the command line is one the option recognises
Recognised ==
    \A i \in DOMAIN cli.argv.options :
        LET opt == cli.argv.options[i] IN
        /\ opt.flag = "--mode" => opt.value \in {"merge", "replace", "append"}
        /\ opt.flag \in {"--max-pages", "--period-days"} =>
                opt.value \in {<<"1", "2">>, <<"3", "0">>, <<"0">>}

\* the arguments the claim expects run_dlt to be called with
ExpectedCall ==
    [merchant_id |-> LastGiven("--merchant-id", "notonthehighstreet-com"),
     mode |-> LastGiven("--mode", "merge"),
     max_pages |-> IF GivenAt({"--max-pages"}) = {} THEN 1
                   ELSE IntegerOf(LastGiven("--max-pages", <<>>)),
     include_ratings |->
        LET given == GivenAt({"--include-ratings", "--no-include-ratings"}) IN
        IF given = {} THEN TRUE
        ELSE cli.argv.options[CHOOSE i \in given : \A j \in given : j <= i].flag
                = "--include-ratings",
     period_days |-> IF GivenAt({"--period-days"}) = {} THEN <<>>
                     ELSE <<IntegerOf(LastGiven("--period-days", <<>>))>>,
     since |-> LastGiven("--since", None),
     until |-> LastGiven("--until", None)]

\* C17: a run command whose option values are recognised calls run_dlt once,
\* and never again, with every argument equal to the value the command line
\* gives for it (the integer the digits stand for, for max_pages and
\* period_days; false for --no-include-ratings) or, for a flag not given, to
\* its default: notonthehighstreet-com, merge, 1, true, None, None, None.
C17_FlagsReachRunDlt ==
    /\ Len(cli.calls) <= 1
    /\ (cli.argv.command = "run" /\ cli.pc \in {"called", "exited"} /\ Recognised)
            => cli.calls = <<ExpectedCall>>

\* a finished run command given --max-pages 12 and --no-include-ratings, whose
\* one call had max_pages 12, include_ratings false and the default mode
C17_Witness ==
    /\ cli.pc = "exited"
    /\ cli.argv.command = "run"
    /\ cli.argv.options = <<[flag |-> "--max-pages", value |-> <<"1", "2">>],
                            [flag |-> "--no-include-ratings", value |-> None]>>
    /\ Len(cli.calls) = 1
    /\ cli.calls[1].max_pages = 12
    /\ ~cli.calls[1].include_ratings
    /\ cli.calls[1].mode = "merge"

----------------------------------------------------------------------------
(* Properties of the filtered call (SpecFiltered) *)

\* the request carries the filter named key with the value v, or, for v None,
\* does not carry the key at all
SentAsSupplied(params, key, v) ==
    IF v = None THEN key \notin DOMAIN params
    ELSE key \in DOMAIN params /\ params[key] = v

\* C18 as stated: every review page request carries merchant_identifier equal
\* to the call's merchant_id, carries since / until unchanged whenever a
\* string was supplied for it, whatever the string, and does not carry a
\* filter that was not supplied.
C18_AnyStringSent ==
    \A i \in DOMAIN reviewCalls :
        LET params == reviewCalls[i].params IN
        /\ params["merchant_identifier"] = cfg.merchant_id
        /\ SentAsSupplied(params, "since", cfg.since)
        /\ SentAsSupplied(params, "until", cfg.until)

\* C18 amended: every review page request carries merchant_identifier equal
\* to the call's merchant_id; a since / until supplied as a non-empty string
\* is sent unchanged, date or not; a filter that is not supplied, or supplied
\* as the empty string, is not sent.
C18_NonEmptyStringSent ==
    \A i \in DOMAIN reviewCalls :
        LET params == reviewCalls[i].params IN
        /\ params["merchant_identifier"] = cfg.merchant_id
        /\ SentAsSupplied(params, "since", IF cfg.since = "" THEN None ELSE cfg.since)
        /\ SentAsSupplied(params, "until", IF cfg.until = "" THEN None ELSE cfg.until)

\* a call given since "yesterday" and no until whose second page request
\* carries the merchant, since "yesterday" and no until
C18_Witness ==
    /\ cfg.since = "yesterday"
    /\ cfg.until = None
    /\ cfg.merchant_id = "notonthehighstreet-com"
    /\ Len(reviewCalls) = 2
    /\ reviewCalls[2].params["since"] = "yesterday"
    /\ "until" \notin DOMAIN reviewCalls[2].params
    /\ reviewCalls[2].params["merchant_identifier"] = "notonthehighstreet-com"

----------------------------------------------------------------------------
(* Properties of the pass over a given list (SpecList) *)

\* the sku values of the mentions of a sequence of reviews, review after review
RECURSIVE SkusOf(_)
SkusOf(reviews) ==
    IF reviews = <<>> THEN <<>>
    ELSE LET ms == IF Head(reviews).hasProducts THEN Head(reviews).products ELSE <<>>
         IN  [i \in DOMAIN ms |-> IF ms[i].product /\ ms[i].sku # Absent
                                  THEN ms[i].sku ELSE None]
                \o SkusOf(Tail(reviews))

\* C22: the pass is single and lazy. Every request is for a SKU of a review
\* already pulled and has been answered before the next step (at most one is
\* outstanding); every step makes at most one request; the mentions walked and
\* the mentions of the reviews still in the input together stay those of the
\* input list (each review is pulled once, in order); and a review is pulled
\* only when the mentions of the one before are exhausted, every distinct SKU
\* mentioned so far has been requested and the records of every answered
\* request have been yielded.
C22_SingleLazyPass ==
    /\ [](/\ RequestedSkus \subseteq Mentioned
          /\ \A s \in RequestedSkus : ratingsApi[s] # Unfixed)
    /\ [][/\ Len(ratingCalls') <= Len(ratingCalls) + 1
          /\ tpc # "idle" => walked' \o SkusOf(buffer') = walked \o SkusOf(buffer)
          /\ pulled' # pulled =>
                /\ pulled' = pulled + 1
                /\ Len(buffer') = Len(buffer) - 1
                /\ tpc = "loop"
                /\ products = <<>>
                /\ Requested = FirstMentions
                /\ YieldedRecords = FetchedRecords(Len(Requested))]_vars

\* a finished pass over two reviews, the first mentioning A then B, in which
\* both were requested in that order and records were yielded
C22_Witness ==
    /\ tpc = "done"
    /\ pulled = 2
    /\ Len(walked) >= 3
    /\ walked[1] = "A"
    /\ walked[2] = "B"
    /\ Requested = <<"A", "B">>
    /\ Len(yielded) >= 2

====
